---- MODULE Spec2Model ----
(***************************************************************************)
(* Model of cmd/serve.go of mapshot: the scan of the script-output         *)
(* directory (findShots), the construction of a route table (updateMux),   *)
(* the periodic rescan (watch) and the dispatch of requests (ServeHTTP).   *)
(*                                                                         *)
(* Strings are sequences of tokens: a path "/data/a/" is                   *)
(* <<"/", "data", "/", "a", "/">>, so that prefix tests, stripping and     *)
(* cleaning act on the text of the path as the Go code does.               *)
(***************************************************************************)
EXTENDS Integers, Sequences, FiniteSets, TLC

VARIABLES fs, main, smux, lock, um, wpc, woken, cancelled, heap, cl, lastFailed,
          goos

vars == <<fs, main, smux, lock, um, wpc, woken, cancelled, heap, cl, lastFailed,
          goos>>

(***************************************************************************)
(* Bounds.                                                                 *)
(***************************************************************************)
\* Number of requests that can be in flight at once.
NumClients == 1

Clients == 1..NumClients
\* One table can be referenced by s.mux, by the running updateMux and by
\* each request in flight.
MaxMux == NumClients + 2
Procs == {"main", "watch"}

(***************************************************************************)
(* Strings and paths.                                                      *)
(***************************************************************************)
Slash == "/"
\* The platforms the server is built for, and filepath.Separator of the
\* one it runs on.
GOOS == {"linux", "windows"}
Separator == IF goos = "windows" THEN "\\" ELSE Slash

Last(s) == s[Len(s)]
Front(s) == SubSeq(s, 1, Len(s) - 1)
IsPrefix(p, s) == Len(p) <= Len(s) /\ SubSeq(s, 1, Len(p)) = p

RECURSIVE Join(_, _)
\* The segments written as one string with sep between them.
Join(segs, sep) ==
    IF segs = <<>> THEN <<>>
    ELSE IF Len(segs) = 1 THEN <<segs[1]>>
    ELSE <<segs[1], sep>> \o Join(Tail(segs), sep)

\* filepath.ToSlash: every separator becomes a forward slash.
ToSlash(name) ==
    [k \in 1..Len(name) |-> IF name[k] = Separator THEN Slash ELSE name[k]]

\* The segments of a slash-separated string, empty segments dropped.
Segments(p) == SelectSeq(p, LAMBDA t : t # Slash)

RECURSIVE Resolve(_, _)
\* path.Clean on the segments of a rooted path: "." is dropped and ".."
\* removes the segment before it (nothing at the root).
Resolve(done, rest) ==
    IF rest = <<>> THEN done
    ELSE IF Head(rest) = "." THEN Resolve(done, Tail(rest))
    ELSE IF Head(rest) = ".."
         THEN Resolve(IF done = <<>> THEN <<>> ELSE Front(done), Tail(rest))
    ELSE Resolve(Append(done, Head(rest)), Tail(rest))

\* net/http cleanPath: the canonical rooted path, its trailing slash kept.
CleanPath(p) ==
    LET segs == Resolve(<<>>, Segments(p))
        np   == <<Slash>> \o Join(segs, Slash)
    IN  IF p = <<>> THEN <<Slash>>
        ELSE IF Last(p) = Slash /\ segs # <<>> THEN np \o <<Slash>>
        ELSE np

(***************************************************************************)
(* The filesystem. A file path is the sequence of its segments. The tree   *)
(* under the script-output directory has fixed directories; each may hold  *)
(* an entry named mapshot.json, a regular file or a directory.             *)
(***************************************************************************)
Marker == "mapshot.json"
\* s.baseDir, a symlink to RealDir.
BaseDir == <<"out">>
RealDir == <<"srv">>
Dirs == {RealDir, RealDir \o <<"a">>, RealDir \o <<"a", "b">>}
Kinds == {"dir", "none", "file"}

\* Lexical rank of an entry name, the order filepath.Walk visits a
\* directory's entries in.
Rank(n) == CASE n = "a" -> 1 [] n = "b" -> 2 [] n = Marker -> 3 [] OTHER -> 4

\* The paths that exist in filesystem f.
Entries(f) == Dirs \cup {d \o <<Marker>> : d \in {e \in Dirs : f[e] # "none"}}

Children(f, p) == {e \in Entries(f) : Len(e) = Len(p) + 1 /\ IsPrefix(p, e)}

RECURSIVE SortByRank(_)
SortByRank(S) ==
    IF S = {} THEN <<>>
    ELSE LET m == CHOOSE e \in S : \A o \in S : Rank(Last(e)) <= Rank(Last(o))
         IN  <<m>> \o SortByRank(S \ {m})

RECURSIVE WalkOrder(_, _)
RECURSIVE WalkAll(_, _)
\* filepath.Walk: the path itself, then its entries in lexical order, each
\* walked in turn.
WalkOrder(f, p) == <<p>> \o WalkAll(f, SortByRank(Children(f, p)))
WalkAll(f, ps) ==
    IF ps = <<>> THEN <<>> ELSE WalkOrder(f, Head(ps)) \o WalkAll(f, Tail(ps))

\* filepath.Base and filepath.Dir.
Base(p) == Last(p)
Dir(p) == Front(p)

RECURSIVE CommonLen(_, _)
CommonLen(a, b) ==
    IF a = <<>> \/ b = <<>> \/ Head(a) # Head(b) THEN 0
    ELSE 1 + CommonLen(Tail(a), Tail(b))

\* filepath.Rel(base, target) for two absolute paths, as a string.
Rel(base, target) ==
    LET k    == CommonLen(base, target)
        ups  == [j \in 1..(Len(base) - k) |-> ".."]
        segs == ups \o SubSeq(target, k + 1, Len(target))
    IN  IF segs = <<>> THEN <<".">> ELSE Join(segs, Separator)

(***************************************************************************)
(* Go slices: a nil slice is not an empty one.                             *)
(***************************************************************************)
NilSlice == [nil |-> TRUE, elems |-> <<>>]
\* append(s, x)
AppendSlice(s, x) == [nil |-> FALSE, elems |-> Append(s.elems, x)]

(***************************************************************************)
(* findShots.                                                              *)
(***************************************************************************)
\* Faulty variant: the urlPath is built from the name as filepath.Rel
\* gives it.
MakeShotNoToSlash(path) ==
    LET shotPath == Dir(path)
        name     == Rel(RealDir, shotPath)
    IN  [fsPath |-> shotPath,
         Name   |-> name,
         Path   |-> <<Slash, "data", Slash>> \o name \o <<Slash>>]

\* Faulty variant: the name is the first segment of the relative path.
MakeShotTopLevel(path) ==
    LET shotPath == Dir(path)
        name     == <<Head(Rel(RealDir, shotPath))>>
    IN  [fsPath |-> shotPath,
         Name   |-> name,
         Path   |-> <<Slash, "data", Slash>> \o ToSlash(name) \o <<Slash>>]

\* The ShotInfo findShots builds for the entry at path.
MakeShot(path) ==
    LET shotPath == Dir(path)
        name     == Rel(RealDir, shotPath)
    IN  [fsPath |-> shotPath,
         Name   |-> name,
         Path   |-> <<Slash, "data", Slash>> \o ToSlash(name) \o <<Slash>>]

RECURSIVE WalkFn(_, _, _, _)
\* The walk callback applied to the entries of walk from index k on; the
\* entry number failAt (0: none) is reported with an error, which the
\* callback returns and which ends the walk.
WalkFn(walk, k, failAt, shots) ==
    IF k > Len(walk) THEN [shots |-> shots, err |-> FALSE]
    ELSE IF k = failAt THEN [shots |-> shots, err |-> TRUE]
    ELSE IF Base(walk[k]) # Marker THEN WalkFn(walk, k + 1, failAt, shots)
    ELSE WalkFn(walk, k + 1, failAt, AppendSlice(shots, MakeShot(walk[k])))

\* The list the walk of f has collected when it ends.
Collected(f, rootOK, failAt) ==
    IF ~rootOK THEN NilSlice
    ELSE WalkFn(WalkOrder(f, RealDir), 1, failAt, NilSlice).shots

\* Faulty variant: a walk that failed returns what it had collected.
findShotsPartial(f, rootOK, failAt) ==
    IF ~rootOK THEN [shots |-> NilSlice, err |-> TRUE]
    ELSE WalkFn(WalkOrder(f, RealDir), 1, failAt, NilSlice)

\* findShots(baseDir) on filesystem f. rootOK: filepath.EvalSymlinks
\* resolves baseDir; failAt: the entry of the walk that reports an error.
findShots(f, rootOK, failAt) ==
    IF ~rootOK THEN [shots |-> NilSlice, err |-> TRUE]
    ELSE LET r == WalkFn(WalkOrder(f, RealDir), 1, failAt, NilSlice)
         IN  IF r.err THEN [shots |-> NilSlice, err |-> TRUE]
             ELSE [shots |-> r.shots, err |-> FALSE]

\* The number of entries a walk of f visits.
WalkLen(f) == Len(WalkOrder(f, RealDir))

(***************************************************************************)
(* encoding/json of map[string]interface{}{"all": shots}. The document is  *)
(* kept as its structure: "all" is null for a nil slice, else the array of *)
(* the objects of the exported, tagged fields of each ShotInfo.            *)
(***************************************************************************)
\* A []byte that is nil.
NoData == [nil |-> TRUE, all |-> [null |-> TRUE, items |-> <<>>]]

\* Faulty variant: the unexported field is encoded too.
JsonShotWithFsPath(shot) ==
    [name |-> shot.Name, path |-> shot.Path, fsPath |-> shot.fsPath]

\* The object of a ShotInfo: its exported fields under their tags. Neither
\* string is empty, so omitempty drops nothing.
JsonShot(shot) == [name |-> shot.Name, path |-> shot.Path]

JsonMarshal(shots) ==
    [err  |-> FALSE,
     data |-> [nil |-> FALSE,
               all |-> IF shots.nil THEN [null |-> TRUE, items |-> <<>>]
                       ELSE [null  |-> FALSE,
                             items |-> [k \in 1..Len(shots.elems) |->
                                           JsonShot(shots.elems[k])]]]]

(***************************************************************************)
(* net/http: handlers and ServeMux.                                        *)
(***************************************************************************)
\* http.StripPrefix(prefix, http.FileServer(http.Dir(dir)))
FileHandler(prefix, dir) ==
    [data |-> NoData, dir |-> dir, kind |-> "file", strip |-> prefix]
\* http.StripPrefix(prefix, s.frontendMux); no prefix: s.frontendMux itself.
FrontendHandler(prefix) ==
    [data |-> NoData, dir |-> <<>>, kind |-> "frontend", strip |-> prefix]
\* The closure serving the captured listing.
ShotsHandler(data) ==
    [data |-> data, dir |-> <<>>, kind |-> "shots", strip |-> <<>>]

Patterns(m) == {r.pattern : r \in m}
HandlerAt(m, pat) == (CHOOSE r \in m : r.pattern = pat).h

\* mux.Handle(pattern, h): a pattern registered twice panics.
MuxHandle(m, pat, h) ==
    IF pat \in Patterns(m) THEN [panic |-> TRUE, mux |-> m]
    ELSE [panic |-> FALSE, mux |-> m \cup {[pattern |-> pat, h |-> h]}]

\* Faulty variant: among the subtree patterns the shortest is taken.
MuxMatchShortest(m, path) ==
    IF path \in Patterns(m) THEN {path}
    ELSE LET sub == {p \in Patterns(m) : Last(p) = Slash /\ IsPrefix(p, path)}
         IN  {p \in sub : \A q \in sub : Len(p) <= Len(q)}

\* ServeMux.match: the exact pattern, else the longest pattern ending in a
\* slash that the path starts with.
MuxMatch(m, path) ==
    IF path \in Patterns(m) THEN {path}
    ELSE LET sub == {p \in Patterns(m) : Last(p) = Slash /\ IsPrefix(p, path)}
         IN  {p \in sub : \A q \in sub : Len(q) <= Len(p)}

\* What a handler does with the request path it is given.
Respond(h, path) ==
    IF h.strip # <<>> /\ ~IsPrefix(h.strip, path)
    THEN [path |-> path, data |-> NoData, dir |-> <<>>, kind |-> "notfound"]
    ELSE [path |-> SubSeq(path, Len(h.strip) + 1, Len(path)),
          data |-> h.data,
          dir  |-> h.dir,
          kind |-> h.kind]

Redirect(to) == [path |-> to, data |-> NoData, dir |-> <<>>, kind |-> "redirect"]

\* ServeMux.ServeHTTP for a GET of path: the redirect to the subtree root,
\* the redirect to the clean path, or the matching handler.
MuxServe(m, path) ==
    LET clean == CleanPath(path)
    IN  IF clean \notin Patterns(m) /\ (clean \o <<Slash>>) \in Patterns(m)
        THEN Redirect(clean \o <<Slash>>)
        ELSE IF clean # path THEN Redirect(clean)
        ELSE LET hit == MuxMatch(m, path)
             IN  IF hit = {}
                 THEN [path |-> path, data |-> NoData, dir |-> <<>>,
                       kind |-> "notfound"]
                 ELSE Respond(HandlerAt(m, CHOOSE p \in hit : TRUE), path)

(***************************************************************************)
(* The server: state.                                                      *)
(*   fs        the kind of the mapshot.json entry of each directory        *)
(*   main      where cmdServe.RunE is                                      *)
(*   smux      s.mux: the table of requests, 0 for nil                     *)
(*   lock      the holder of s.m, 0 when free                              *)
(*   um        the frame of updateMux of each caller                       *)
(*   wpc       where Server.watch is; woken: the case its select took      *)
(*   cancelled whether cmd.Context() is done                               *)
(*   heap      the ServeMux objects, by address                            *)
(*   cl        the ServeHTTP call of each request in flight                *)
(*   lastFailed whether the scan of the last background cycle failed       *)
(*   goos      the platform the process runs on                            *)
(***************************************************************************)
\* The holder of s.m: a request is its number, the callers of updateMux
\* are negative.
LockId(p) == IF p = "main" THEN -1 ELSE -2

\* ret: the list findShots returned; part: the list its walk had collected
\* when it ended; scanErr: whether it returned an error; old: s.mux and its
\* routes when the cycle began.
IdleFrame ==
    [shots |-> NilSlice, err |-> FALSE, data |-> NoData, mux |-> 0,
     pc |-> "idle", scanErr |-> FALSE, ret |-> NilSlice, part |-> NilSlice,
     i |-> 0, old |-> [id |-> 0, routes |-> {}]]

NoResp == [path |-> <<>>, data |-> NoData, dir |-> <<>>, kind |-> "none"]
\* seen: the routes the captured table had when the request read s.mux.
IdleClient ==
    [path |-> <<>>, mux |-> 0, pc |-> "idle", seen |-> {}, resp |-> NoResp]

\* The directories the mod writes renders to while the server runs.
WatchedDirs == {RealDir, RealDir \o <<"a">>}

\* The request path of the clients while the watcher runs: the listing.
ServedPaths == {<<Slash, "shots.json">>}

\* The request paths routing is examined on.
ReqPaths ==
    { <<Slash>>,
      <<Slash, "shots.json">>,
      <<Slash, "foo">>,
      <<Slash, "map">>,
      <<Slash, "data", Slash, "a">>,
      <<Slash, "map", Slash, "foo">>,
      <<Slash, "data", Slash, ".", Slash, "x">>,
      <<Slash, "data", Slash, "a", Slash, "x">>,
      <<Slash, "data", Slash, "a", Slash, "b", Slash, "x">> }

Init ==
    /\ fs = [d \in Dirs |-> "none"]
    /\ main = "start"
    /\ smux = 0
    /\ lock = 0
    /\ um = [p \in Procs |-> IdleFrame]
    /\ wpc = "off"
    /\ woken = "none"
    /\ cancelled = FALSE
    /\ heap = [a \in 1..MaxMux |-> {}]
    /\ cl = [c \in Clients |-> IdleClient]
    /\ lastFailed = FALSE
    /\ goos = "linux"

\* The process has neither exited nor panicked.
Alive == main \notin {"failed", "panic"}

\* The addresses reachable from the given references.
Refs(cur, frames, clients) ==
    ({cur} \cup {frames[p].mux : p \in Procs} \cup {clients[c].mux : c \in Clients})
        \ {0}

\* Garbage collection: a ServeMux nothing references is gone.
Sweep(h, cur, frames, clients) ==
    [a \in 1..MaxMux |-> IF a \in Refs(cur, frames, clients) THEN h[a] ELSE {}]

\* http.NewServeMux(): a fresh address.
NewAddr == CHOOSE a \in 1..MaxMux :
              /\ a \notin Refs(smux, um, cl)
              /\ \A b \in 1..MaxMux : b \notin Refs(smux, um, cl) => a <= b

(***************************************************************************)
(* The environment: the mapshot mod writes and deletes renders, and the    *)
(* command's context is cancelled. Only findShots reads the filesystem,    *)
(* so its changes are taken when a scan is about to read it. While the     *)
(* watcher runs there is one render at a time; RouteSpec has the trees     *)
(* with several.                                                           *)
(***************************************************************************)
Scanning == \E p \in Procs : um[p].pc = "find"

AddMarker(d) ==
    /\ Alive
    /\ Scanning
    /\ \A e \in Dirs : fs[e] = "none"
    /\ fs' = [fs EXCEPT ![d] = "file"]
    /\ UNCHANGED <<main, smux, lock, um, wpc, woken, cancelled, heap, cl, lastFailed, goos>>

RemoveMarker(d) ==
    /\ Alive
    /\ Scanning
    /\ fs[d] # "none"
    /\ fs' = [fs EXCEPT ![d] = "none"]
    /\ UNCHANGED <<main, smux, lock, um, wpc, woken, cancelled, heap, cl, lastFailed, goos>>

\* ctx.Done() is closed; a watcher blocked in its select takes that case.
Cancel ==
    /\ Alive
    /\ ~cancelled
    /\ cancelled' = TRUE
    /\ woken' = IF wpc = "select" /\ woken = "none" THEN "ctx" ELSE woken
    /\ UNCHANGED <<fs, main, smux, lock, um, wpc, heap, cl, lastFailed, goos>>

(***************************************************************************)
(* cmdServe.RunE and newServer.                                            *)
(***************************************************************************)
\* factorio.New: an error is returned to the caller; else newServer is
\* entered, which calls updateMux.
FactorioNew ==
    /\ main = "start"
    /\ \E ok \in BOOLEAN :
          IF ok
          THEN /\ main' = "newServer"
               /\ um' = [um EXCEPT !["main"].pc = "find"]
          ELSE /\ main' = "failed"
               /\ um' = um
    /\ UNCHANGED <<fs, smux, lock, wpc, woken, cancelled, heap, cl, lastFailed, goos>>

\* Faulty variant: the watcher is started while newServer is still in its
\* updateMux.
GoWatchEarly ==
    /\ main = "newServer"
    /\ main' = "listen"
    /\ wpc' = "arm"
    /\ UNCHANGED <<fs, smux, lock, um, woken, cancelled, heap, cl, lastFailed, goos>>

\* newServer has returned: go s.watch(ctx).
GoWatch ==
    /\ main = "newServer"
    /\ um["main"].pc = "idle"
    /\ main' = "listen"
    /\ wpc' = "arm"
    /\ UNCHANGED <<fs, smux, lock, um, woken, cancelled, heap, cl, lastFailed, goos>>

\* http.ListenAndServe: it binds the port and serves, or returns its error.
Listen ==
    /\ main = "listen"
    /\ \E ok \in BOOLEAN : main' = IF ok THEN "serving" ELSE "failed"
    /\ UNCHANGED <<fs, smux, lock, um, wpc, woken, cancelled, heap, cl, lastFailed, goos>>

(***************************************************************************)
(* Server.updateMux, run by p.                                             *)
(***************************************************************************)
\* Faulty variant: every cycle stores its mux, a failed one too.
ShouldPublishAlways(shots, cur) == TRUE

\* Faulty variant: the first call is not singled out.
ShouldPublishNonNil(shots, cur) == ~shots.nil

\* The condition under which updateMux stores its mux in s.mux.
ShouldPublish(shots, cur) == ~shots.nil \/ cur = 0

\* shots, err := findShots(s.baseDir); on an error shots = nil.
UmFind(p) ==
    /\ Alive
    /\ um[p].pc = "find"
    /\ \E rootOK \in BOOLEAN, failAt \in 0..WalkLen(fs) :
          LET r == findShots(fs, rootOK, failAt)
          IN  um' = [um EXCEPT ![p].pc = "new",
                               ![p].shots = IF r.err THEN NilSlice ELSE r.shots,
                               ![p].err = r.err,
                               ![p].scanErr = r.err,
                               ![p].ret = r.shots,
                               ![p].part = Collected(fs, rootOK, failAt),
                               ![p].old = [id |-> smux,
                                           routes |-> IF smux = 0 THEN {}
                                                      ELSE heap[smux]]]
    /\ UNCHANGED <<fs, main, smux, lock, wpc, woken, cancelled, heap, cl, lastFailed, goos>>

\* Faulty variant: the new mux is stored in s.mux before it is filled.
UmNewPublished(p) ==
    /\ Alive
    /\ um[p].pc = "new"
    /\ um' = [um EXCEPT ![p].pc = IF um[p].shots.elems = <<>> THEN "marshal"
                                  ELSE "range",
                        ![p].mux = NewAddr,
                        ![p].i = 1]
    /\ heap' = [heap EXCEPT ![NewAddr] = {}]
    /\ smux' = NewAddr
    /\ UNCHANGED <<fs, main, lock, wpc, woken, cancelled, cl, lastFailed, goos>>

\* mux := http.NewServeMux()
UmNew(p) ==
    /\ Alive
    /\ um[p].pc = "new"
    /\ um' = [um EXCEPT ![p].pc = IF um[p].shots.elems = <<>> THEN "marshal"
                                  ELSE "range",
                        ![p].mux = NewAddr,
                        ![p].i = 1]
    /\ heap' = [heap EXCEPT ![NewAddr] = {}]
    /\ UNCHANGED <<fs, main, smux, lock, wpc, woken, cancelled, cl, lastFailed, goos>>

\* Faulty variant: every handler is bound to the directory of the last
\* descriptor of the list.
UmRangeLast(p) ==
    /\ Alive
    /\ um[p].pc = "range"
    /\ LET shot == um[p].shots.elems[um[p].i]
           last == um[p].shots.elems[Len(um[p].shots.elems)]
           r    == MuxHandle(heap[um[p].mux], shot.Path,
                             FileHandler(shot.Path, last.fsPath))
       IN  /\ heap' = [heap EXCEPT ![um[p].mux] = r.mux]
           /\ main' = IF r.panic THEN "panic" ELSE main
           /\ um' = [um EXCEPT ![p].i = um[p].i + 1,
                               ![p].pc = IF um[p].i = Len(um[p].shots.elems)
                                         THEN "marshal" ELSE "range"]
    /\ UNCHANGED <<fs, smux, lock, wpc, woken, cancelled, cl, lastFailed, goos>>

\* One iteration of the loop over shots: mux.Handle(shot.Path, ...).
UmRange(p) ==
    /\ Alive
    /\ um[p].pc = "range"
    /\ LET shot == um[p].shots.elems[um[p].i]
           r    == MuxHandle(heap[um[p].mux], shot.Path,
                             FileHandler(shot.Path, shot.fsPath))
       IN  /\ heap' = [heap EXCEPT ![um[p].mux] = r.mux]
           /\ main' = IF r.panic THEN "panic" ELSE main
           /\ um' = [um EXCEPT ![p].i = um[p].i + 1,
                               ![p].pc = IF um[p].i = Len(um[p].shots.elems)
                                         THEN "marshal" ELSE "range"]
    /\ UNCHANGED <<fs, smux, lock, wpc, woken, cancelled, cl, lastFailed, goos>>

\* data, err := json.Marshal(...); on an error data = nil.
UmMarshal(p) ==
    /\ Alive
    /\ um[p].pc = "marshal"
    /\ LET r == JsonMarshal(um[p].shots)
       IN  um' = [um EXCEPT ![p].pc = "root",
                            ![p].err = r.err,
                            ![p].data = IF r.err THEN NoData ELSE r.data]
    /\ UNCHANGED <<fs, main, smux, lock, wpc, woken, cancelled, heap, cl, lastFailed, goos>>

\* mux.Handle(pat, h) as the step at pc from, going on at pc to.
UmHandle(p, from, to, pat, h) ==
    /\ Alive
    /\ um[p].pc = from
    /\ LET r == MuxHandle(heap[um[p].mux], pat, h)
       IN  /\ heap' = [heap EXCEPT ![um[p].mux] = r.mux]
           /\ main' = IF r.panic THEN "panic" ELSE main
    /\ um' = [um EXCEPT ![p].pc = to]
    /\ UNCHANGED <<fs, smux, lock, wpc, woken, cancelled, cl, lastFailed, goos>>

\* mux.Handle("/", s.frontendMux)
UmHandleRoot(p) ==
    UmHandle(p, "root", "shotsjson", <<Slash>>, FrontendHandler(<<>>))

\* mux.HandleFunc("/shots.json", ...)
UmHandleShots(p) ==
    UmHandle(p, "shotsjson", "map", <<Slash, "shots.json">>,
             ShotsHandler(um[p].data))

\* Faulty variant: the legacy route keeps the /map prefix.
UmHandleMapNoStrip(p) ==
    UmHandle(p, "map", "lock", <<Slash, "map", Slash>>, FrontendHandler(<<>>))

\* mux.Handle("/map/", http.StripPrefix("/map", s.frontendMux))
UmHandleMap(p) ==
    UmHandle(p, "map", "lock", <<Slash, "map", Slash>>,
             FrontendHandler(<<Slash, "map">>))

\* s.m.Lock()
UmLock(p) ==
    /\ Alive
    /\ um[p].pc = "lock"
    /\ lock = 0
    /\ lock' = LockId(p)
    /\ um' = [um EXCEPT ![p].pc = "swap"]
    /\ UNCHANGED <<fs, main, smux, wpc, woken, cancelled, heap, cl, lastFailed, goos>>

\* if shots != nil || s.mux == nil { s.mux = mux }
UmSwap(p) ==
    /\ Alive
    /\ um[p].pc = "swap"
    /\ smux' = IF ShouldPublish(um[p].shots, smux) THEN um[p].mux ELSE smux
    /\ um' = [um EXCEPT ![p].pc = "unlock"]
    /\ UNCHANGED <<fs, main, lock, wpc, woken, cancelled, heap, cl, lastFailed, goos>>

\* Faulty variant: a failed initial scan ends the process.
UmUnlockFatal(p) ==
    /\ Alive
    /\ um[p].pc = "unlock"
    /\ lock' = 0
    /\ um' = [um EXCEPT ![p] = IdleFrame]
    /\ heap' = Sweep(heap, smux, um', cl)
    /\ wpc' = IF p = "watch" THEN "arm" ELSE wpc
    /\ lastFailed' = IF p = "watch" THEN um[p].scanErr ELSE lastFailed
    /\ main' = IF p = "main" /\ um[p].scanErr THEN "failed" ELSE main
    /\ UNCHANGED <<fs, smux, woken, cancelled, cl, goos>>

\* Faulty variant: the watcher returns after a cycle whose scan failed.
UmUnlockStop(p) ==
    /\ Alive
    /\ um[p].pc = "unlock"
    /\ lock' = 0
    /\ um' = [um EXCEPT ![p] = IdleFrame]
    /\ heap' = Sweep(heap, smux, um', cl)
    /\ wpc' = IF p = "watch"
              THEN (IF um[p].scanErr THEN "done" ELSE "arm")
              ELSE wpc
    /\ lastFailed' = IF p = "watch" THEN um[p].scanErr ELSE lastFailed
    /\ UNCHANGED <<fs, main, smux, woken, cancelled, cl, goos>>

\* The deferred s.m.Unlock() and the return; the watcher goes back to the
\* top of its loop.
UmUnlock(p) ==
    /\ Alive
    /\ um[p].pc = "unlock"
    /\ lock' = 0
    /\ um' = [um EXCEPT ![p] = IdleFrame]
    /\ heap' = Sweep(heap, smux, um', cl)
    /\ wpc' = IF p = "watch" THEN "arm" ELSE wpc
    /\ lastFailed' = IF p = "watch" THEN um[p].scanErr ELSE lastFailed
    /\ UNCHANGED <<fs, main, smux, woken, cancelled, cl, goos>>

(***************************************************************************)
(* Server.watch.                                                           *)
(***************************************************************************)
\* Faulty variant: the select waits for the timer alone.
WatchSelectBlind ==
    /\ Alive
    /\ wpc = "arm"
    /\ wpc' = "select"
    /\ woken' = "none"
    /\ UNCHANGED <<fs, main, smux, lock, um, cancelled, heap, cl, lastFailed, goos>>

\* The select is entered with a new timer of at least 8 s; a context that
\* is already done is the only ready case.
WatchSelect ==
    /\ Alive
    /\ wpc = "arm"
    /\ wpc' = "select"
    /\ woken' = IF cancelled THEN "ctx" ELSE "none"
    /\ UNCHANGED <<fs, main, smux, lock, um, cancelled, heap, cl, lastFailed, goos>>

\* The timer of time.After fires while the watcher is blocked.
TimerFire ==
    /\ Alive
    /\ wpc = "select"
    /\ woken = "none"
    /\ woken' = "timer"
    /\ UNCHANGED <<fs, main, smux, lock, um, wpc, cancelled, heap, cl, lastFailed, goos>>

\* case <-time.After(delay): s.updateMux()
WatchWake ==
    /\ Alive
    /\ wpc = "select"
    /\ woken = "timer"
    /\ wpc' = "update"
    /\ woken' = "none"
    /\ um' = [um EXCEPT !["watch"].pc = "find"]
    /\ UNCHANGED <<fs, main, smux, lock, cancelled, heap, cl, lastFailed, goos>>

\* case <-ctx.Done(): return
WatchReturn ==
    /\ Alive
    /\ wpc = "select"
    /\ woken = "ctx"
    /\ wpc' = "done"
    /\ woken' = "none"
    /\ UNCHANGED <<fs, main, smux, lock, um, cancelled, heap, cl, lastFailed, goos>>

(***************************************************************************)
(* Server.ServeHTTP, for request c.                                        *)
(***************************************************************************)
\* s.m.Lock()
ClLock(c) ==
    /\ main = "serving"
    /\ cl[c].pc = "idle"
    /\ lock = 0
    /\ lock' = c
    /\ cl' = [cl EXCEPT ![c].pc = "locked"]
    /\ UNCHANGED <<fs, main, smux, um, wpc, woken, cancelled, heap, lastFailed, goos>>

\* mux := s.mux
ClRead(c) ==
    /\ main = "serving"
    /\ cl[c].pc = "locked"
    /\ cl' = [cl EXCEPT ![c].pc = "read",
                        ![c].mux = smux,
                        ![c].seen = IF smux = 0 THEN {} ELSE heap[smux]]
    /\ UNCHANGED <<fs, main, smux, lock, um, wpc, woken, cancelled, heap, lastFailed, goos>>

\* Faulty variant: the unlock is deferred to the return of ServeHTTP.
ClUnlockDeferred(c) ==
    /\ main = "serving"
    /\ cl[c].pc = "read"
    /\ cl' = [cl EXCEPT ![c].pc = "serve"]
    /\ UNCHANGED <<fs, main, smux, lock, um, wpc, woken, cancelled, heap,
                   lastFailed, goos>>

\* s.m.Unlock()
ClUnlock(c) ==
    /\ main = "serving"
    /\ cl[c].pc = "read"
    /\ lock' = 0
    /\ cl' = [cl EXCEPT ![c].pc = "serve"]
    /\ UNCHANGED <<fs, main, smux, um, wpc, woken, cancelled, heap, lastFailed, goos>>

\* mux.ServeHTTP(w, req), for a request of any path; a nil mux panics.
ClServe(c, paths) ==
    /\ main = "serving"
    /\ cl[c].pc = "serve"
    /\ \E path \in paths :
          IF cl[c].mux = 0
          THEN /\ main' = "panic"
               /\ cl' = cl
          ELSE /\ main' = main
               /\ cl' = [cl EXCEPT ![c].pc = "done",
                                   ![c].path = path,
                                   ![c].resp = MuxServe(heap[cl[c].mux], path)]
    /\ UNCHANGED <<fs, smux, lock, um, wpc, woken, cancelled, heap, lastFailed, goos>>

\* ServeHTTP returns.
ClDone(c) ==
    /\ main = "serving"
    /\ cl[c].pc = "done"
    /\ cl' = [cl EXCEPT ![c] = IdleClient]
    /\ heap' = Sweep(heap, smux, um, cl')
    /\ UNCHANGED <<fs, main, smux, lock, um, wpc, woken, cancelled, lastFailed, goos>>

(***************************************************************************)
(* The specification.                                                      *)
(***************************************************************************)
Next ==
    \/ \E d \in WatchedDirs : AddMarker(d)
    \/ \E d \in WatchedDirs : RemoveMarker(d)
    \/ Cancel
    \/ FactorioNew
    \/ GoWatch
    \/ Listen
    \/ \E p \in Procs : UmFind(p)
    \/ \E p \in Procs : UmNew(p)
    \/ \E p \in Procs : UmRange(p)
    \/ \E p \in Procs : UmMarshal(p)
    \/ \E p \in Procs : UmHandleRoot(p)
    \/ \E p \in Procs : UmHandleShots(p)
    \/ \E p \in Procs : UmHandleMap(p)
    \/ \E p \in Procs : UmLock(p)
    \/ \E p \in Procs : UmSwap(p)
    \/ \E p \in Procs : UmUnlock(p)
    \/ WatchSelect
    \/ TimerFire
    \/ WatchWake
    \/ WatchReturn
    \/ \E c \in Clients : ClLock(c)
    \/ \E c \in Clients : ClRead(c)
    \/ \E c \in Clients : ClUnlock(c)
    \/ \E c \in Clients : ClServe(c, ServedPaths)
    \/ \E c \in Clients : ClDone(c)

Spec == Init /\ [][Next]_vars

(***************************************************************************)
(* The server under fair scheduling: the watcher is a goroutine the        *)
(* scheduler keeps running, sync.Mutex hands the lock to a waiter that     *)
(* keeps asking for it, and a request that holds the lock goes on to       *)
(* release it. The tree holds one render and does not change.              *)
(***************************************************************************)
WatchStep ==
    \/ WatchSelect
    \/ WatchWake
    \/ WatchReturn
    \/ UmFind("watch")
    \/ UmNew("watch")
    \/ UmRange("watch")
    \/ UmMarshal("watch")
    \/ UmHandleRoot("watch")
    \/ UmHandleShots("watch")
    \/ UmHandleMap("watch")
    \/ UmSwap("watch")
    \/ UmUnlock("watch")

ClientRelease(c) == ClRead(c) \/ ClUnlock(c)

FairInit ==
    /\ fs = [d \in Dirs |-> IF d = RealDir \o <<"a">> THEN "file" ELSE "none"]
    /\ main = "start"
    /\ smux = 0
    /\ lock = 0
    /\ um = [p \in Procs |-> IdleFrame]
    /\ wpc = "off"
    /\ woken = "none"
    /\ cancelled = FALSE
    /\ heap = [a \in 1..MaxMux |-> {}]
    /\ cl = [c \in Clients |-> IdleClient]
    /\ lastFailed = FALSE
    /\ goos = "linux"

FairNext ==
    \/ Cancel
    \/ FactorioNew
    \/ GoWatch
    \/ Listen
    \/ \E p \in Procs : UmFind(p)
    \/ \E p \in Procs : UmNew(p)
    \/ \E p \in Procs : UmRange(p)
    \/ \E p \in Procs : UmMarshal(p)
    \/ \E p \in Procs : UmHandleRoot(p)
    \/ \E p \in Procs : UmHandleShots(p)
    \/ \E p \in Procs : UmHandleMap(p)
    \/ \E p \in Procs : UmLock(p)
    \/ \E p \in Procs : UmSwap(p)
    \/ \E p \in Procs : UmUnlock(p)
    \/ WatchSelect
    \/ TimerFire
    \/ WatchWake
    \/ WatchReturn
    \/ \E c \in Clients : ClLock(c)
    \/ \E c \in Clients : ClRead(c)
    \/ \E c \in Clients : ClUnlock(c)
    \/ \E c \in Clients : ClServe(c, ServedPaths)
    \/ \E c \in Clients : ClDone(c)

FairSpec ==
    /\ FairInit
    /\ [][FairNext]_vars
    /\ WF_vars(WatchStep)
    /\ SF_vars(UmLock("watch"))
    /\ \A c \in Clients : WF_vars(ClientRelease(c))

(***************************************************************************)
(* The first table: construction on any tree and on either platform, no    *)
(* rescan, and one request after another on every path of ReqPaths.        *)
(***************************************************************************)
RouteInit ==
    /\ fs \in [Dirs -> Kinds]
    /\ main = "start"
    /\ smux = 0
    /\ lock = 0
    /\ um = [p \in Procs |-> IdleFrame]
    /\ wpc = "off"
    /\ woken = "none"
    /\ cancelled = FALSE
    /\ heap = [a \in 1..MaxMux |-> {}]
    /\ cl = [c \in Clients |-> IdleClient]
    /\ lastFailed = FALSE
    /\ goos \in GOOS

RouteNext ==
    \/ FactorioNew
    \/ GoWatch
    \/ Listen
    \/ UmFind("main")
    \/ UmNew("main")
    \/ UmRange("main")
    \/ UmMarshal("main")
    \/ UmHandleRoot("main")
    \/ UmHandleShots("main")
    \/ UmHandleMap("main")
    \/ UmLock("main")
    \/ UmSwap("main")
    \/ UmUnlock("main")
    \/ \E c \in Clients : ClLock(c)
    \/ \E c \in Clients : ClRead(c)
    \/ \E c \in Clients : ClUnlock(c)
    \/ \E c \in Clients : ClServe(c, ReqPaths)
    \/ \E c \in Clients : ClDone(c)

RouteSpec == RouteInit /\ [][RouteNext]_vars

(***************************************************************************)
(* The build alone: the part of updateMux after the scan, in newServer,    *)
(* on any list of at most MaxShots descriptors, whether a scan can return  *)
(* it or not.                                                              *)
(***************************************************************************)
MaxShots == 2

\* Descriptors: any directory under any of two urlPaths.
Descriptors ==
    {[fsPath |-> d, Name |-> <<n>>, Path |-> <<Slash, "data", Slash, n, Slash>>] :
        d \in Dirs, n \in {"a", "b"}}

\* The lists of descriptors: the nil slice and the slices of 0..MaxShots
\* descriptors.
DescriptorLists ==
    {NilSlice} \cup
    {[nil |-> FALSE, elems |-> e] :
        e \in UNION {[1..n -> Descriptors] : n \in 0..MaxShots}}

BuildInit ==
    /\ fs = [d \in Dirs |-> "none"]
    /\ main = "newServer"
    /\ smux = 0
    /\ lock = 0
    /\ \E shots \in DescriptorLists :
          um = [p \in Procs |->
                  IF p = "main"
                  THEN [IdleFrame EXCEPT !.pc = "new", !.shots = shots,
                                         !.ret = shots, !.part = shots]
                  ELSE IdleFrame]
    /\ wpc = "off"
    /\ woken = "none"
    /\ cancelled = FALSE
    /\ heap = [a \in 1..MaxMux |-> {}]
    /\ cl = [c \in Clients |-> IdleClient]
    /\ lastFailed = FALSE
    /\ goos = "linux"

BuildNext ==
    \/ UmNew("main")
    \/ UmRange("main")
    \/ UmMarshal("main")
    \/ UmHandleRoot("main")
    \/ UmHandleShots("main")
    \/ UmHandleMap("main")
    \/ UmLock("main")
    \/ UmSwap("main")
    \/ UmUnlock("main")

BuildSpec == BuildInit /\ [][BuildNext]_vars

(***************************************************************************)
(* Properties.                                                             *)
(***************************************************************************)
FixedPatterns ==
    {<<Slash>>, <<Slash, "shots.json">>, <<Slash, "map", Slash>>}
\* The artifact routes of table m.
FileRoutes(m) == {r \in m : r.h.kind = "file"}
\* Table m has its three fixed routes.
Complete(m) == FixedPatterns \subseteq Patterns(m)
\* The document /shots.json of table m serves, and the paths it lists.
Listing(m) == HandlerAt(m, <<Slash, "shots.json">>).data
ListedPaths(m) ==
    {Listing(m).all.items[k].path : k \in 1..Len(Listing(m).all.items)}
\* The listing and the artifact routes of m describe the same shots.
Consistent(m) ==
    /\ Complete(m)
    /\ ListedPaths(m) = {r.pattern : r \in FileRoutes(m)}
\* The paths of the shots of a frame.
ShotPaths(f) == {f.shots.elems[k].Path : k \in 1..Len(f.shots.elems)}
\* newServer has returned.
Constructed == wpc # "off" \/ (main = "newServer" /\ um["main"].pc = "idle")
InFlight == {"done", "read", "serve"}

\* C1: in every cycle whose scan succeeded, an empty result included, the
\* table the cycle built is the one requests are served by afterwards.
C1_SuccessfulScanReplaces ==
    \A p \in Procs :
        (um[p].pc = "unlock" /\ ~um[p].scanErr)
            => heap[smux] = heap[um[p].mux]

\* C2: a background cycle whose scan failed leaves s.mux the table it was
\* before the cycle, with the routes and the listing it had.
C2_FailedScanKeepsTable ==
    (um["watch"].pc = "unlock" /\ um["watch"].scanErr)
        => /\ smux # 0
           /\ smux = um["watch"].old.id
           /\ heap[smux] = um["watch"].old.routes

C2_Witness ==
    /\ um["watch"].pc = "unlock"
    /\ um["watch"].scanErr
    /\ FileRoutes(heap[smux]) # {}

\* C3: a request in flight is served by the one table it read under the
\* lock; that table was complete when it was read, has its listing and its
\* artifact routes from one scan, and has not changed since, whatever was
\* published meanwhile.
C3_OneCompleteTable ==
    \A c \in Clients :
        cl[c].pc \in InFlight
            => /\ cl[c].mux # 0
               /\ heap[cl[c].mux] = cl[c].seen
               /\ Consistent(cl[c].seen)
               /\ cl[c].pc = "done"
                    => cl[c].resp = MuxServe(cl[c].seen, cl[c].path)

C3_Witness ==
    \E c \in Clients :
        /\ cl[c].pc = "done"
        /\ cl[c].mux # smux
        /\ heap[smux] # cl[c].seen

\* C4: once newServer has returned s.mux is not nil, and no request reads
\* or dispatches to a nil table.
C4_TableNeverNil ==
    Constructed
        => /\ smux # 0
           /\ main # "panic"
           /\ \A c \in Clients : cl[c].pc \in InFlight => cl[c].mux # 0

C4_Witness ==
    /\ main = "serving"
    /\ lastFailed
    /\ FileRoutes(heap[smux]) = {}
    /\ \E c \in Clients : cl[c].pc = "serve"

\* C5 as claimed: the initial updateMux whose scan failed returns into an
\* aborted startup.
C5_InitialFailureFatal ==
    [][(/\ um["main"].pc = "unlock"
        /\ um["main"].scanErr
        /\ um'["main"].pc = "idle") => main' = "failed"]_vars

\* C5 as amended: no failed scan is fatal, the initial one included: the
\* cycle returns with a table published and the caller goes on; startup is
\* aborted only by factorio.New or by http.ListenAndServe.
C5_OnlyStartupErrorsFatal ==
    [][/\ (main' = "failed" /\ main # "failed") => main \in {"start", "listen"}
       /\ \A p \in Procs :
            (um[p].pc = "unlock" /\ um[p].scanErr /\ um'[p].pc = "idle")
                => (main' = main /\ smux' # 0)]_vars

C5_Witness ==
    /\ main = "newServer"
    /\ um["main"].pc = "unlock"
    /\ um["main"].scanErr
    /\ smux = um["main"].mux

\* C6: s.m is held by updateMux only around the store of s.mux and by
\* ServeHTTP only around the read of s.mux; the scan, the build and the
\* encoding run without it, and so does the serving of the response.
C6_LockOnlyAroundReference ==
    /\ \A p \in Procs : lock = LockId(p) <=> um[p].pc \in {"swap", "unlock"}
    /\ \A c \in Clients : lock = c <=> cl[c].pc \in {"locked", "read"}

C6_Witness ==
    /\ um["watch"].pc = "find"
    /\ \E c \in Clients : cl[c].pc = "read"

\* C7: after a background cycle that started from a table without
\* artifacts and whose scan succeeded, the current table lists every shot
\* found and serves a file under the path of each.
C7_NewShotListedAndServed ==
    LET f == um["watch"]
    IN  (f.pc = "unlock" /\ ~f.scanErr /\ FileRoutes(f.old.routes) = {})
            => \A k \in 1..Len(f.shots.elems) :
                  LET shot == f.shots.elems[k]
                      r    == MuxServe(heap[smux], shot.Path \o <<"x">>)
                  IN  /\ shot.Path \in ListedPaths(heap[smux])
                      /\ r.kind = "file"
                      /\ r.dir = shot.fsPath

\* C8: a cancellation that comes before the timer ends the loop without
\* another cycle; a cycle starts only from the timer, and ends back at the
\* top of the loop; once cancelled, the watcher terminates.
C8_WatchObservesCancel ==
    /\ [][/\ (wpc = "select" /\ cancelled /\ woken # "timer")
               => (woken' # "timer" /\ um'["watch"].pc = "idle")
          /\ (um["watch"].pc = "idle" /\ um'["watch"].pc # "idle")
               => (wpc = "select" /\ woken = "timer" /\ wpc' = "update")
          /\ (wpc = "update" /\ wpc' # "update")
               => (wpc' = "arm" /\ um'["watch"].pc = "idle")]_vars
    /\ (cancelled /\ wpc # "off") ~> (wpc = "done" \/ ~Alive)

C8_Witness ==
    /\ lastFailed
    /\ wpc = "done"
    /\ cancelled
    /\ FileRoutes(heap[smux]) # {}

\* C9: the watcher ends only on cancellation, whatever its cycles met; a
\* later cycle whose scan finds shots publishes its table.
C9_ErrorsDoNotStopWatcher ==
    /\ wpc = "done" => cancelled
    /\ main # "panic"
    /\ LET f == um["watch"]
       IN  (f.pc = "unlock" /\ ~f.scanErr /\ ~f.shots.nil)
              => /\ smux = f.mux
                 /\ ShotPaths(f) = ListedPaths(heap[smux])

C9_Witness ==
    /\ lastFailed
    /\ um["watch"].pc = "unlock"
    /\ ~um["watch"].scanErr
    /\ ~um["watch"].shots.nil
    /\ smux = um["watch"].mux

MapPrefix == <<Slash, "map", Slash>>
ShotsPath == <<Slash, "shots.json">>
Fallback(r, path) == r.kind = "frontend" /\ r.path = path
\* The artifact routes of m that path is under.
Over(m, path) == {a \in FileRoutes(m) : IsPrefix(a.pattern, path)}

\* C10 as claimed: /map/... goes to the fallback with /map stripped,
\* /shots.json to the listing, a path under an artifact urlPath to that
\* artifact's files, every other path to the fallback unchanged.
C10_RoutingAsClaimed ==
    \A c \in Clients :
        cl[c].pc = "done" =>
            LET path == cl[c].path
                m    == cl[c].seen
                r    == cl[c].resp
            IN  /\ IsPrefix(MapPrefix, path)
                     => Fallback(r, SubSeq(path, 3, Len(path)))
                /\ path = ShotsPath
                     => (r.kind = "shots" /\ r.data = Listing(m))
                /\ \A a \in Over(m, path) :
                     r.kind = "file" /\ r.dir = a.h.dir
                /\ (/\ ~IsPrefix(MapPrefix, path)
                    /\ path # ShotsPath
                    /\ Over(m, path) = {}) => Fallback(r, path)

\* C10 as amended: a path that is not clean, or that is a registered
\* subtree without its final slash, is redirected; a path under artifact
\* urlPaths goes to the files of the longest of them; the rest as claimed.
C10_Routing ==
    \A c \in Clients :
        cl[c].pc = "done" =>
            LET path  == cl[c].path
                m     == cl[c].seen
                r     == cl[c].resp
                clean == CleanPath(path)
                slash == clean \o <<Slash>>
            IN  IF clean # path \/ (path \notin Patterns(m) /\ slash \in Patterns(m))
                THEN r.kind = "redirect" /\ r.path \in {clean, slash}
                ELSE /\ IsPrefix(MapPrefix, path)
                          => Fallback(r, SubSeq(path, 3, Len(path)))
                     /\ path = ShotsPath
                          => (r.kind = "shots" /\ r.data = Listing(m))
                     /\ \A a \in Over(m, path) :
                          (\A b \in Over(m, path) :
                              Len(b.pattern) <= Len(a.pattern))
                             => /\ r.kind = "file"
                                /\ r.dir = a.h.dir
                                /\ a.pattern \o r.path = path
                     /\ (/\ ~IsPrefix(MapPrefix, path)
                         /\ path # ShotsPath
                         /\ Over(m, path) = {}) => Fallback(r, path)

C10_Witness ==
    \E c \in Clients :
        /\ cl[c].pc = "done"
        /\ cl[c].path = <<Slash, "data", Slash, "a", Slash, "b", Slash, "x">>
        /\ Cardinality(Over(cl[c].seen, cl[c].path)) = 2
        /\ cl[c].resp.kind = "file"
        /\ cl[c].resp.dir = RealDir \o <<"a", "b">>

\* The frame holds the result of its scan.
ScanDone(f) == f.pc \notin {"idle", "find"}
\* The descriptors of a frame.
Shots(f) == {f.shots.elems[k] : k \in 1..Len(f.shots.elems)}
\* The path of directory d relative to the canonical root, its segments
\* separated by forward slashes.
RelSlash(d) ==
    IF d = RealDir THEN <<".">>
    ELSE Join(SubSeq(d, Len(RealDir) + 1, Len(d)), Slash)
DataPrefix == <<Slash, "data", Slash>>

\* C11: after a scan that succeeded every directory that holds a marker
\* file has a descriptor, and every descriptor has the directory of a
\* marker as its fsPath and "/data/" + the forward-slash path of that
\* directory relative to the canonical root + "/" as its urlPath.
C11_UrlPathFromRelativePath ==
    \A p \in Procs :
        (ScanDone(um[p]) /\ ~um[p].scanErr)
            => /\ \A d \in Dirs :
                    fs[d] = "file" => \E shot \in Shots(um[p]) : shot.fsPath = d
               /\ \A shot \in Shots(um[p]) :
                    /\ shot.fsPath \in Dirs
                    /\ fs[shot.fsPath] # "none"
                    /\ shot.Path = DataPrefix \o RelSlash(shot.fsPath) \o <<Slash>>

C11_Witness ==
    /\ goos = "windows"
    /\ ScanDone(um["main"])
    /\ ~um["main"].scanErr
    /\ \A d \in Dirs : fs[d] = "file"
    /\ Len(um["main"].shots.elems) = 3

\* C12: a scan that returns an error returns a nil list with it, whether
\* the root did not resolve or an entry of the walk reported an error, and
\* whatever the walk had collected before.
C12_NoPartialList ==
    \A p \in Procs :
        (ScanDone(um[p]) /\ um[p].scanErr)
            => /\ um[p].ret = NilSlice
               /\ um[p].shots = NilSlice

C12_Witness ==
    /\ ScanDone(um["main"])
    /\ um["main"].scanErr
    /\ Len(um["main"].part.elems) = 2

\* C13: every descriptor of a scan is the directory of an entry named
\* mapshot.json that is a regular file.
C13_OnlyRegularFiles ==
    \A p \in Procs :
        (ScanDone(um[p]) /\ ~um[p].scanErr)
            => \A shot \in Shots(um[p]) : fs[shot.fsPath] = "file"

\* C14: on every platform the name of a descriptor has forward slashes
\* between its segments, and the urlPath is "/data/" + name + "/".
C14_NameForwardSlashes ==
    \A p \in Procs :
        (ScanDone(um[p]) /\ ~um[p].scanErr)
            => \A shot \in Shots(um[p]) :
                  /\ shot.Name = RelSlash(shot.fsPath)
                  /\ shot.Path = DataPrefix \o shot.Name \o <<Slash>>

\* The frame has built its table: every route is registered.
Built(f) == f.pc \in {"lock", "swap", "unlock"}

\* C15: the listing of a table is {"all": L}, L being the (name, path)
\* projection, in order, of the list its artifact routes were registered
\* from (null for the nil list); no object of L has another field; and in
\* every complete table the listed paths are the artifact routes.
C15_ListingIsProjection ==
    /\ \A p \in Procs :
          Built(um[p]) =>
              LET f == um[p]
                  m == heap[f.mux]
                  L == Listing(m).all
              IN  /\ ~Listing(m).nil
                  /\ L.null = f.shots.nil
                  /\ Len(L.items) = Len(f.shots.elems)
                  /\ \A k \in 1..Len(L.items) :
                        /\ DOMAIN L.items[k] = {"name", "path"}
                        /\ L.items[k].name = f.shots.elems[k].Name
                        /\ L.items[k].path = f.shots.elems[k].Path
                  /\ {r.pattern : r \in FileRoutes(m)} = ShotPaths(f)
    /\ \A a \in 1..MaxMux :
          Complete(heap[a])
              => ListedPaths(heap[a]) = {r.pattern : r \in FileRoutes(heap[a])}

C15_Witness ==
    /\ Built(um["main"])
    /\ Len(um["main"].shots.elems) = 3
    /\ Len(Listing(heap[um["main"].mux]).all.items) = 3

C17_UrlPathsDistinct ==
    \A p \in Procs :
        (ScanDone(um[p]) /\ ~um[p].scanErr)
            => \A i \in 1..Len(um[p].shots.elems), j \in 1..Len(um[p].shots.elems) :
                  i # j => /\ um[p].shots.elems[i].Name # um[p].shots.elems[j].Name
                           /\ um[p].shots.elems[i].Path # um[p].shots.elems[j].Path

C17_Witness ==
    /\ um["main"].pc = "new"
    /\ ~um["main"].scanErr
    /\ Len(um["main"].shots.elems) = 3
    /\ \E d \in Dirs : fs[d] = "dir"

C19_HandlerBoundToOwnDescriptor ==
    \A p \in Procs :
        Built(um[p]) =>
            \A shot \in Shots(um[p]) :
                LET h == HandlerAt(heap[um[p].mux], shot.Path)
                    r == Respond(h, shot.Path \o <<"x">>)
                IN  /\ shot.Path \in Patterns(heap[um[p].mux])
                    /\ h = FileHandler(shot.Path, shot.fsPath)
                    /\ r.kind = "file"
                    /\ r.dir = shot.fsPath
                    /\ r.path = <<"x">>

C19_Witness ==
    /\ Built(um["main"])
    /\ Len(um["main"].shots.elems) = 3
    /\ Cardinality({r.h.dir : r \in FileRoutes(heap[um["main"].mux])}) = 3

\* The callers of updateMux that are inside it.
Cycling == {p \in Procs : um[p].pc # "idle"}

\* C20: at most one cycle is in progress; the initial cycle runs before the
\* watcher exists and the watcher's cycles run inside its loop; and a table
\* is published only by the one cycle in progress, in place of the table
\* that was current when that cycle's scan began.
C20_OneCycleAtATime ==
    /\ [](Cardinality(Cycling) <= 1)
    /\ [](um["main"].pc # "idle" => (wpc = "off" /\ main = "newServer"))
    /\ [](um["watch"].pc # "idle" <=> wpc = "update")
    /\ [][smux' # smux =>
            \E p \in Procs :
                /\ Cycling = {p}
                /\ um[p].pc = "swap"
                /\ smux' = um[p].mux
                /\ smux = um[p].old.id]_vars

C20_Witness ==
    /\ um["watch"].pc = "unlock"
    /\ lastFailed
    /\ smux = um["watch"].mux
    /\ um["watch"].old.id \notin {0, smux}
    /\ FileRoutes(um["watch"].old.routes) # FileRoutes(heap[smux])

====
